---- MODULE Spec2Model ----
(***************************************************************************)
(* A model of scripts/sync_mirror.py: the periodic job that mirrors the    *)
(* open pull requests of facebook/react into greptileai/react-mirror.      *)
(*                                                                         *)
(* Text that the script formats or parses (branch names, PR bodies) is a   *)
(* sequence of one-character strings, so that f-string formatting and the  *)
(* regular-expression search are computed, not assumed.  Opaque values     *)
(* (titles, base branch names, commit ids) are compared only for equality. *)
(*                                                                         *)
(* An adapter call (git, gh) either exits 0 or exits non-zero; which one   *)
(* is the environment's choice.  run_cmd(check=True) turns a non-zero exit *)
(* into an exception, run_cmd(check=False) returns normally.               *)
(***************************************************************************)
EXTENDS Naturals, Sequences, FiniteSets, TLC

\* ------------------------------------------------------------------ bounds

\* Upstream pull-request numbers range over 1..MaxPr.
MaxPr == 3
\* The fork holds at most this many open pull requests before the first run.
MaxForkInit == 2
\* Open pull requests, upstream and fork together, before the first run.
MaxWorld == 3
\* Runs of the job in one behaviour of the scheduled specification.
MaxRuns == 2
\* Upstream changes (open, push, leave) between runs in one behaviour.
MaxChanges == 2
\* Upstream PR numbers of the runs that write and read back a mirror body.
MaxId == 120

\* --------------------------------------------------------------- constants

UPSTREAM_REPO ==
    <<"f","a","c","e","b","o","o","k","/","r","e","a","c","t">>
FORK_REPO ==
    <<"g","r","e","p","t","i","l","e","a","i","/","r","e","a","c","t","-","m","i","r","r","o","r">>
\* gh pr list --limit of get_upstream_prs and of get_fork_prs
UPSTREAM_LIMIT == 500
FORK_LIMIT == 1000

\* The literal text of the pattern r"facebook/react#(\d+)".
BackRefLiteral ==
    <<"f","a","c","e","b","o","o","k","/","r","e","a","c","t","#">>

\* The literal pieces of the f-string that builds a mirror PR's body.
TplMirrorOf ==
    <<"*","*","M","i","r","r","o","r"," ","o","f"," ","[">>
TplLinkOpen ==
    <<"]","(","h","t","t","p","s",":","/","/","g","i","t","h","u","b",".","c","o","m","/">>
TplPull ==
    <<"/","p","u","l","l","/">>
TplAuthor ==
    <<")","*","*","\n","*","*","O","r","i","g","i","n","a","l"," ","a","u","t","h","o","r",":","*","*"," ">>
TplRule ==
    <<"\n","\n","-","-","-","\n","\n">>

\* ------------------------------------------------------------ text helpers

DigitChars == <<"0","1","2","3","4","5","6","7","8","9">>

IsDigit(c) == \E d \in 1..10 : DigitChars[d] = c

DigitVal(c) == (CHOOSE d \in 1..10 : DigitChars[d] = c) - 1

\* str(n) for a natural number: its decimal digits.
RECURSIVE Str(_)
Str(n) == IF n < 10 THEN <<DigitChars[n + 1]>>
          ELSE Str(n \div 10) \o <<DigitChars[(n % 10) + 1]>>

\* int(ds) for a non-empty sequence of decimal digits.
RECURSIVE ParseInt(_)
ParseInt(ds) == IF Len(ds) = 0 THEN 0
                ELSE 10 * ParseInt(SubSeq(ds, 1, Len(ds) - 1)) + DigitVal(ds[Len(ds)])

\* Whether the sequence lit occurs in s at position i.
OccursAt(s, lit, i) ==
    /\ i + Len(lit) - 1 <= Len(s)
    /\ \A k \in 1..Len(lit) : s[i + k - 1] = lit[k]

\* Whether lit occurs anywhere in s (Python's "lit in s").
Contains(s, lit) == \E i \in 1..Len(s) : OccursAt(s, lit, i)

\* Optional values: <<>> is None, <<v>> is v.
None == <<>>
Some(v) == <<v>>

\* ------------------------------------------------- extract_upstream_pr_num

\* Whether r"facebook/react#(\d+)" matches at position i: the literal
\* followed by at least one digit.
MatchesAt(body, i) ==
    /\ OccursAt(body, BackRefLiteral, i)
    /\ i + Len(BackRefLiteral) <= Len(body)
    /\ IsDigit(body[i + Len(BackRefLiteral)])

\* re.search scans from the left: the first position from i on where the
\* pattern matches, 0 when there is none.
RECURSIVE SearchFrom(_, _)
SearchFrom(body, i) ==
    IF i > Len(body) THEN 0
    ELSE IF MatchesAt(body, i) THEN i
    ELSE SearchFrom(body, i + 1)

\* \d+ is greedy: the last position of the run of digits that starts at i.
RECURSIVE DigitRunEnd(_, _)
DigitRunEnd(body, i) ==
    IF i < Len(body) /\ IsDigit(body[i + 1]) THEN DigitRunEnd(body, i + 1)
    ELSE i

\* match = re.search(...); int(match.group(1)) if match else None
extract_upstream_pr_num(pr) ==
    LET body == pr.body
        i    == SearchFrom(body, 1)
        d0   == i + Len(BackRefLiteral)
    IN  IF i = 0 THEN None
        ELSE Some(ParseInt(SubSeq(body, d0, DigitRunEnd(body, d0))))

\* Python truthiness of Optional[int]: None and 0 are both false.
Truthy(opt) == opt # None /\ opt[1] # 0

\* --------------------------------------------------------- get_branch_name

\* A variant that drops the id suffix when head branches are shared.
get_branch_name_unsuffixed(pr) == pr.headRefName

\* f"{head_ref}-{pr['number']}"
get_branch_name_suffixed(pr) == pr.headRefName \o <<"-">> \o Str(pr.number)

get_branch_name(pr, all_prs) ==
    LET head_ref == pr.headRefName
        count == Cardinality({i \in DOMAIN all_prs : all_prs[i].headRefName = head_ref})
    IN  IF count > 1 THEN get_branch_name_suffixed(pr) ELSE head_ref

\* ------------------------------------------------------ the mirror PR body

\* A variant of the template that puts the original body before the
\* "Mirror of" line.
MirrorBodyAfterOriginal(pr_num, author, body) ==
    body \o TplRule \o TplMirrorOf \o UPSTREAM_REPO \o <<"#">> \o Str(pr_num)
        \o TplLinkOpen \o UPSTREAM_REPO \o TplPull \o Str(pr_num)
        \o TplAuthor \o author

\* pr_body = f"""**Mirror of [{UPSTREAM_REPO}#{pr_num}](https://github.com/
\* {UPSTREAM_REPO}/pull/{pr_num})**\n**Original author:** {author}\n\n---\n\n{body}"""
MirrorBody(pr_num, author, body) ==
    TplMirrorOf \o UPSTREAM_REPO \o <<"#">> \o Str(pr_num) \o TplLinkOpen
        \o UPSTREAM_REPO \o TplPull \o Str(pr_num) \o TplAuthor \o author
        \o TplRule \o body

\* ------------------------------------------------------------- data model

\* The values a model run draws upstream pull requests from.
Heads  == {<<"h">>, <<"h","-","2">>}
Bases  == {<<"m","a","i","n">>, <<"d","e","v">>}
Titles == <<"Fix scheduler", "Add hook", "Bump deps", "Update docs">>
Logins == <<<<"a","n","n">>, <<"b","o","b">>>>
\* Original bodies: empty, or text that itself cites another upstream PR.
Bodies == << <<>>, <<"s","e","e"," ">> \o BackRefLiteral \o <<"9">> >>

TitleOf(n)  == Titles[((n - 1) % Len(Titles)) + 1]
AuthorOf(n) == Logins[((n - 1) % Len(Logins)) + 1]
BodyOf(n)   == Bodies[((n - 1) % Len(Bodies)) + 1]
BaseOf(n)   == IF n % 2 = 0 THEN <<"d","e","v">> ELSE <<"m","a","i","n">>

\* One entry of gh pr list --json number,title,baseRefName,headRefName,
\* headRefOid,body,author on the upstream repository.
UpstreamPr(n, head, sha) ==
    [number |-> n, title |-> TitleOf(n), baseRefName |-> BaseOf(n),
     headRefName |-> head, headRefOid |-> sha, body |-> BodyOf(n),
     author |-> AuthorOf(n)]

\* One open pull request of the fork.
ForkPr(n, title, base, head, sha, body) ==
    [number |-> n, title |-> title, baseRefName |-> base,
     headRefName |-> head, headRefOid |-> sha, body |-> body]

\* One adapter call as the run issued it, with its exit status.
Call(op, num, ref, force, ok) ==
    [op |-> op, num |-> num, ref |-> ref, base |-> <<>>, title |-> "",
     body |-> <<>>, force |-> force, delete_branch |-> FALSE, ok |-> ok]

\* ---------------------------------------------------------------- listings

\* The orders in which the platform lists the pull requests of a set:
\* newest first (gh's default) or oldest first.
Listings(S) ==
    {l \in [1..Cardinality(S) -> S] :
        \/ \A i, j \in 1..Cardinality(S) : i < j => l[i].number > l[j].number
        \/ \A i, j \in 1..Cardinality(S) : i < j => l[i].number < l[j].number}

\* --limit n: the listing is cut to its first n entries.
Limit(l, n) == IF Len(l) <= n THEN l ELSE SubSeq(l, 1, n)

\* get_upstream_prs: json.loads of the listing.
get_upstream_prs(listing) == Limit(listing, UPSTREAM_LIMIT)

\* A Python dict keyed by headRefName, as the sequence of its values in
\* insertion order: a repeated key keeps its place and takes the later value.
DictPut(d, pr) ==
    IF \E i \in DOMAIN d : d[i].headRefName = pr.headRefName
    THEN [i \in DOMAIN d |->
            IF d[i].headRefName = pr.headRefName THEN pr ELSE d[i]]
    ELSE Append(d, pr)

RECURSIVE DictOf(_)
DictOf(l) == IF Len(l) = 0 THEN <<>>
             ELSE DictPut(DictOf(SubSeq(l, 1, Len(l) - 1)), l[Len(l)])

\* get_fork_prs: {pr["headRefName"]: pr for pr in prs}
get_fork_prs(listing) == DictOf(Limit(listing, FORK_LIMIT))

\* fork_prs.get(branch_name)
DictGet(d, key) ==
    LET hits == {i \in DOMAIN d : d[i].headRefName = key}
    IN  IF hits = {} THEN None ELSE Some(d[CHOOSE i \in hits : TRUE])

\* A variant that processes the PRs in the order the platform listed them.
SortAsListed(l) == l

\* sorted(upstream_prs, key=lambda x: x["number"]): a stable insertion sort.
RECURSIVE InsertByNumber(_, _)
InsertByNumber(sorted, pr) ==
    IF Len(sorted) = 0 THEN <<pr>>
    ELSE IF sorted[Len(sorted)].number <= pr.number THEN Append(sorted, pr)
    ELSE Append(InsertByNumber(SubSeq(sorted, 1, Len(sorted) - 1), pr),
                sorted[Len(sorted)])

RECURSIVE SortByNumber(_)
SortByNumber(l) ==
    IF Len(l) = 0 THEN <<>>
    ELSE InsertByNumber(SortByNumber(SubSeq(l, 1, Len(l) - 1)), l[Len(l)])

\* ------------------------------------------------------------------ run_cmd

\* A variant of run_cmd that raises on every non-zero exit, whatever check is.
raises_on_any_failure(check, ok) == ~ok

\* Whether run_cmd raises: subprocess.run(check=check) raises
\* CalledProcessError on a non-zero exit only when check is set, and the
\* handler re-raises it only then.
raises(check, ok) == check /\ ~ok

\* ------------------------------------------------ ensure_base_branch_exists

\* The exit statuses the environment may give the calls made for one
\* upstream item: exists is whether git ls-remote printed the branch.
\* A call is made only if the calls before it exited 0; the status of a
\* call that is not made is written TRUE.
ItemOutcomes ==
    {o \in [exists : BOOLEAN, base_fetch : BOOLEAN, base_push : BOOLEAN,
            fetch : BOOLEAN, push : BOOLEAN, create : BOOLEAN] :
        /\ o.exists => (o.base_fetch /\ o.base_push)
        /\ ~o.base_fetch => o.base_push
        /\ ~(o.base_fetch /\ o.base_push) => (o.fetch /\ o.push /\ o.create)
        /\ ~o.fetch => (o.push /\ o.create)
        /\ ~o.push => o.create}

AllOk == [exists |-> TRUE, base_fetch |-> TRUE, base_push |-> TRUE,
          fetch |-> TRUE, push |-> TRUE, create |-> TRUE]

\* A variant that swallows a failed fetch or push of the base branch and
\* reports the branch as available.
ensure_base_branch_exists_lenient(base_ref, o) ==
    LET ls == Call("ls_remote", 0, base_ref, FALSE, TRUE)
        f  == Call("fetch_base", 0, base_ref, FALSE, o.base_fetch)
        p  == Call("push_base", 0, base_ref, FALSE, o.base_push)
    IN  IF o.exists THEN [calls |-> <<ls>>, ok |-> TRUE]
        ELSE IF ~o.base_fetch THEN [calls |-> <<ls, f>>, ok |-> TRUE]
        ELSE [calls |-> <<ls, f, p>>, ok |-> TRUE]

\* branch_exists_on_origin, then fetch and push under try/except.
\* Returns the calls issued and the boolean result.
ensure_base_branch_exists(base_ref, o) ==
    LET ls == Call("ls_remote", 0, base_ref, FALSE, TRUE)
        f  == Call("fetch_base", 0, base_ref, FALSE, o.base_fetch)
        p  == Call("push_base", 0, base_ref, FALSE, o.base_push)
    IN  IF o.exists THEN [calls |-> <<ls>>, ok |-> TRUE]
        ELSE IF raises(TRUE, o.base_fetch) THEN [calls |-> <<ls, f>>, ok |-> FALSE]
        ELSE IF raises(TRUE, o.base_push) THEN [calls |-> <<ls, f, p>>, ok |-> FALSE]
        ELSE [calls |-> <<ls, f, p>>, ok |-> TRUE]

\* ------------------------------------------------------ create_or_update_pr

\* A variant of the create call that leaves --base out, so that the
\* platform opens the PR against the default branch.
CreateCallDefaultBase(branch_name, base, title, pr_body, ok) ==
    [Call("pr_create", 0, branch_name, FALSE, ok)
        EXCEPT !.base = <<"m","a","i","n">>, !.title = title, !.body = pr_body]

\* gh pr create --repo FORK_REPO --head .. --base .. --title .. --body ..
CreateCall(branch_name, base, title, pr_body, ok) ==
    [Call("pr_create", 0, branch_name, FALSE, ok)
        EXCEPT !.base = base, !.title = title, !.body = pr_body]

\* A variant of the update whose fetch and push are not forced.
update_branch_unforced(pr, branch_name, o) ==
    LET f == Call("fetch_head", pr.number, branch_name, FALSE, o.fetch)
        p == Call("push_head", pr.number, branch_name, FALSE, o.push)
    IN  IF ~o.fetch THEN [result |-> "failed", calls |-> <<f>>]
        ELSE IF ~o.push THEN [result |-> "failed", calls |-> <<f, p>>]
        ELSE [result |-> "updated", calls |-> <<f, p>>]

\* A variant of the update that runs both commands without checking their
\* exit status.
update_branch_unchecked(pr, branch_name, o) ==
    [result |-> "updated",
     calls  |-> <<Call("fetch_head", pr.number, branch_name, TRUE, o.fetch),
                  Call("push_head", pr.number, branch_name, TRUE, o.push)>>]

\* The update of an existing fork PR's branch (lines 147-155).
update_branch(pr, branch_name, o) ==
    LET f == Call("fetch_head", pr.number, branch_name, TRUE, o.fetch)
        p == Call("push_head", pr.number, branch_name, TRUE, o.push)
    IN  IF raises(TRUE, o.fetch) THEN [result |-> "failed", calls |-> <<f>>]
        ELSE IF raises(TRUE, o.push) THEN [result |-> "failed", calls |-> <<f, p>>]
        ELSE [result |-> "updated", calls |-> <<f, p>>]

\* The creation of a new branch and fork PR (lines 157-192).
create_pr(pr, branch_name, o) ==
    LET e  == ensure_base_branch_exists(pr.baseRefName, o)
        f  == Call("fetch_head", pr.number, branch_name, FALSE, o.fetch)
        p  == Call("push_head", pr.number, branch_name, FALSE, o.push)
        c  == CreateCall(branch_name, pr.baseRefName, pr.title,
                         MirrorBody(pr.number, pr.author, pr.body), o.create)
    IN  IF ~e.ok THEN [result |-> "failed", calls |-> e.calls]
        ELSE IF raises(TRUE, o.fetch)
             THEN [result |-> "failed", calls |-> e.calls \o <<f>>]
        ELSE IF raises(TRUE, o.push)
             THEN [result |-> "failed", calls |-> e.calls \o <<f, p>>]
        ELSE IF raises(TRUE, o.create)
             THEN [result |-> "failed", calls |-> e.calls \o <<f, p, c>>]
        ELSE [result |-> "created", calls |-> e.calls \o <<f, p, c>>]

\* A variant that also diffs the titles of the two pull requests.
in_sync_with_title(existing, pr) ==
    existing.headRefOid = pr.headRefOid /\ existing.title = pr.title

\* Whether the existing fork PR is in sync: only the head commits are compared.
in_sync(existing, pr) == existing.headRefOid = pr.headRefOid

\* Returns the outcome ('created', 'updated', 'unchanged' or 'failed') and
\* the calls issued, in order.
create_or_update_pr(pr, branch_name, fork_prs, o) ==
    LET existing == DictGet(fork_prs, branch_name)
    IN  IF existing # None
        THEN IF in_sync(existing[1], pr)
             THEN [result |-> "unchanged", calls |-> <<>>]
             ELSE update_branch(pr, branch_name, o)
        ELSE create_pr(pr, branch_name, o)

\* ------------------------------------------------- close_or_merge_stale_prs

\* What gh pr view --json state,merged returned: nothing (the call failed
\* or printed nothing), or a state with merged true or false.
ViewOutcomes == {"none", "merged", "not_merged"}

StaleOutcomes == [view : ViewOutcomes, merge : BOOLEAN, close : BOOLEAN]

\* get_upstream_pr_state: json.loads(result) if result else None
get_upstream_pr_state(view) ==
    IF view = "none" THEN None ELSE Some([merged |-> (view = "merged")])

\* A variant that merges whenever the lookup returned any state.
reports_any_state(upstream_state) == upstream_state # None

\* if upstream_state and upstream_state.get("merged")
reports_merged(upstream_state) ==
    upstream_state # None /\ upstream_state[1].merged

\* A variant of the merge call without --delete-branch.
MergeCallKeepBranch(pr_num, ok) == Call("pr_merge", pr_num, <<>>, FALSE, ok)

MergeCall(pr_num, ok) ==
    [Call("pr_merge", pr_num, <<>>, FALSE, ok) EXCEPT !.delete_branch = TRUE]

CloseCall(pr_num, ok) ==
    [Call("pr_close", pr_num, <<>>, FALSE, ok) EXCEPT !.delete_branch = TRUE]

Sleep == Call("sleep", 0, <<>>, FALSE, TRUE)

\* One iteration of the loop over fork_prs.items(): the calls issued and
\* the increments of merged and closed.
stale_item(branch_name, pr, upstream_branches, o) ==
    IF branch_name \in upstream_branches
    THEN [calls |-> <<>>, merged |-> 0, closed |-> 0]
    ELSE
      LET upstream_pr_num == extract_upstream_pr_num(pr)
          looked   == Truthy(upstream_pr_num)
          view     == Call("pr_view", IF looked THEN upstream_pr_num[1] ELSE 0,
                           <<>>, FALSE, o.view # "none")
          state    == IF looked THEN get_upstream_pr_state(o.view) ELSE None
          lookup   == IF looked THEN <<view>> ELSE <<>>
          tryMerge == looked /\ reports_merged(state)
          m        == MergeCall(pr.number, o.merge)
          c        == CloseCall(pr.number, o.close)
      IN  \* try: run_gh([... "merge" ...], check=False); merged += 1; continue
          IF tryMerge /\ ~raises(FALSE, o.merge)
          THEN [calls |-> lookup \o <<m>>, merged |-> 1, closed |-> 0]
          ELSE [calls  |-> lookup \o (IF tryMerge THEN <<m>> ELSE <<>>)
                              \o <<c, Sleep>>,
                merged |-> 0,
                \* try: run_gh([... "close" ...], check=False); closed += 1
                closed |-> IF ~raises(FALSE, o.close) THEN 1 ELSE 0]

\* -------------------------------------------------------------------- state

VARIABLES
    upstream,            \* the open pull requests of the upstream repository
    fork,                \* the open pull requests of the fork
    fork_next,           \* the number the fork gives its next pull request
    env_faults,          \* whether adapter calls may exit non-zero
    pc,                  \* idle, items, stale, done or aborted
    upstream_prs,        \* sync_prs: the upstream listing
    upstream_prs_sorted, \* sync_prs: the listing sorted by number
    fork_prs,            \* sync_prs: the fork dict, in insertion order
    upstream_branches,   \* sync_prs: the branch names resolved so far
    idx,                 \* position of the for loop over upstream_prs_sorted
    sidx,                \* position of the for loop over fork_prs.items()
    created, updated, unchanged, failed,   \* sync_prs counters
    closed, merged,      \* close_or_merge_stale_prs counters
    result,              \* the last return value of create_or_update_pr
    success,             \* the return value of sync_prs, None until it returns
    exit_code,           \* the process exit status, None until it exits
    calls,               \* the adapter calls of the latest step, in order
    step,                \* the action that led to this state
    item_env,            \* the statuses the environment chose for the last item
    stale_env,           \* the statuses it chose for the last fork entry
    stale_counts,        \* what the last fork entry added to merged and closed
    run_results,         \* the return values of create_or_update_pr in this run
    run_creates,         \* heads of the create-PR calls issued in this run
    run_ok,              \* every adapter call of this run so far exited 0
    runs,                \* runs started so far
    changes,             \* upstream changes so far
    last_clean,          \* the last run returned with run_ok, upstream unchanged since
    after_clean          \* this run started with last_clean

world == <<upstream, fork, fork_next, env_faults>>
locals == <<upstream_prs, upstream_prs_sorted, fork_prs, upstream_branches,
            idx, sidx>>
counters == <<created, updated, unchanged, failed, closed, merged>>
steplog == <<step, result, calls, item_env, stale_env, stale_counts>>
runlog == <<run_results, run_creates, run_ok>>
history == <<runs, changes, last_clean, after_clean>>
vars == <<world, pc, locals, counters, success, exit_code, steplog, runlog,
          history>>

AllSucceeded(cs) == \A i \in DOMAIN cs : cs[i].ok

Issued(cs, op) == \E i \in DOMAIN cs : cs[i].op = op

\* The statuses the environment may choose from.  A call that is not
\* issued has no status: it is written TRUE, and a lookup that is not
\* issued "not_merged".
Statuses == IF env_faults THEN BOOLEAN ELSE {TRUE}

ItemChoice(o, cs) ==
    /\ ~env_faults => o = AllOk
    /\ ~Issued(cs, "ls_remote") => o.exists
    /\ ~Issued(cs, "fetch_base") => o.base_fetch
    /\ ~Issued(cs, "push_base") => o.base_push
    /\ ~Issued(cs, "fetch_head") => o.fetch
    /\ ~Issued(cs, "push_head") => o.push
    /\ ~Issued(cs, "pr_create") => o.create

StaleChoice(o, cs) ==
    /\ ~env_faults => (o.view # "none" /\ o.merge /\ o.close)
    /\ ~Issued(cs, "pr_view") => o.view = "not_merged"
    /\ ~Issued(cs, "pr_merge") => o.merge
    /\ ~Issued(cs, "pr_close") => o.close

\* -------------------------------------------------------- the fork's answer

\* A push moves the branch, and with it the head of every open PR on it.
ForkAfterPush(f, branch, sha) ==
    {IF p.headRefName = branch THEN [p EXCEPT !.headRefOid = sha] ELSE p : p \in f}

\* The fork after the calls of one upstream item.
ForkAfterItem(f, cs, pr, number) ==
    LET pushes  == {i \in DOMAIN cs : cs[i].op = "push_head" /\ cs[i].ok}
        creates == {i \in DOMAIN cs : cs[i].op = "pr_create" /\ cs[i].ok}
        f1 == IF pushes = {} THEN f
              ELSE ForkAfterPush(f, cs[CHOOSE i \in pushes : TRUE].ref,
                                 pr.headRefOid)
    IN  IF creates = {} THEN f1
        ELSE LET c == cs[CHOOSE i \in creates : TRUE]
             IN  f1 \cup {ForkPr(number, c.title, c.base, c.ref,
                                 pr.headRefOid, c.body)}

\* The platform refuses a second open PR for the same head and base.
CreateAccepted(f, cs) ==
    \A i \in DOMAIN cs :
        (cs[i].op = "pr_create" /\ cs[i].ok) =>
            ~\E p \in f : p.headRefName = cs[i].ref /\ p.baseRefName = cs[i].base

\* The fork after the calls of one stale item: a merge or close that
\* exited 0 ends the PR and deletes its branch.
ForkAfterStale(f, cs, pr) ==
    IF \E i \in DOMAIN cs : cs[i].op \in {"pr_merge", "pr_close"} /\ cs[i].ok
    THEN {p \in f : p.headRefName # pr.headRefName}
    ELSE f

\* An upstream PR that is still open is never reported as merged.
ViewAllowed(cs, view, up) ==
    \A i \in DOMAIN cs :
        (cs[i].op = "pr_view" /\ view = "merged") =>
            ~\E u \in up : u.number = cs[i].num

\* ------------------------------------------------------------ initial state

\* Sets of open upstream PRs with distinct numbers.
UpstreamSets ==
    {S \in SUBSET {UpstreamPr(n, h, 1) : n \in 1..MaxPr, h \in Heads} :
        \A a, b \in S : a.number = b.number => a = b}

\* Fork PRs that exist before the first run: mirrors left by earlier runs
\* and pull requests opened by hand, with no or a malformed back-reference.
ForkHeads == << <<"h">>, <<"h","-","2">> >>
HandBodies == { <<"w","i","p">>, BackRefLiteral \o <<"x">> }

ForkCandidates ==
    {ForkPr(k, TitleOf(n), BaseOf(n), ForkHeads[k], sha,
            MirrorBody(n, AuthorOf(n), BodyOf(n))) :
        k \in DOMAIN ForkHeads, n \in 1..MaxPr, sha \in 1..2}
    \cup
    {ForkPr(k, "Local work", BaseOf(1), ForkHeads[k], 1, b) :
        k \in DOMAIN ForkHeads, b \in HandBodies}

\* Sets of at most k open fork PRs with one PR per head branch.
RECURSIVE ForkSetsUpTo(_)
ForkSetsUpTo(k) ==
    IF k = 0 THEN {{}}
    ELSE LET smaller == ForkSetsUpTo(k - 1)
         IN  smaller \cup
             UNION {{S \cup {c} :
                        c \in {x \in ForkCandidates :
                                  \A a \in S : a.headRefName # x.headRefName}} :
                    S \in smaller}

ForkSets == ForkSetsUpTo(MaxForkInit)

NoCounts == [merged |-> 0, closed |-> 0]
NoItemEnv == AllOk
NoStaleEnv == [view |-> "not_merged", merge |-> TRUE, close |-> TRUE]

Idle ==
    /\ pc = "idle"
    /\ upstream_prs = <<>> /\ upstream_prs_sorted = <<>> /\ fork_prs = <<>>
    /\ upstream_branches = {} /\ idx = 1 /\ sidx = 1
    /\ created = 0 /\ updated = 0 /\ unchanged = 0 /\ failed = 0
    /\ closed = 0 /\ merged = 0
    /\ step = "" /\ result = "" /\ success = None /\ exit_code = None
    /\ calls = <<>>
    /\ item_env = NoItemEnv /\ stale_env = NoStaleEnv /\ stale_counts = NoCounts
    /\ run_results = <<>> /\ run_creates = <<>> /\ run_ok = TRUE
    /\ after_clean = FALSE

\* One run from any upstream set and any fork, with fallible adapters.
Init ==
    /\ upstream \in UpstreamSets
    /\ fork \in ForkSets
    /\ Cardinality(upstream) + Cardinality(fork) <= MaxWorld
    /\ fork_next = Len(ForkHeads) + 1
    /\ env_faults = TRUE
    /\ Idle
    /\ runs = 0 /\ changes = 0 /\ last_clean = FALSE

\* ------------------------------------------------------------------ sync_prs

\* sync_prs up to the first loop: the two listings, the sort, the counters.
\* A listing that exits non-zero raises out of sync_prs and main.
StartRun ==
    /\ pc = "idle"
    /\ runs < MaxRuns
    /\ runs' = runs + 1
    /\ after_clean' = last_clean
    /\ step' = "start"
    /\ \E uok \in Statuses, fok \in Statuses :
        LET lu == Call("pr_list_upstream", 0, <<>>, FALSE, uok)
            lf == Call("pr_list_fork", 0, <<>>, FALSE, fok)
        IN  IF raises(TRUE, uok) \/ raises(TRUE, fok)
            THEN /\ uok \/ fok
                 /\ pc' = "aborted"
                 /\ calls' = IF raises(TRUE, uok) THEN <<lu>> ELSE <<lu, lf>>
                 /\ exit_code' = Some(1)
                 /\ run_ok' = FALSE
                 /\ UNCHANGED locals
            ELSE \E ul \in Listings(upstream), fl \in Listings(fork) :
                 /\ upstream_prs' = get_upstream_prs(ul)
                 /\ fork_prs' = get_fork_prs(fl)
                 /\ upstream_prs_sorted' = SortByNumber(get_upstream_prs(ul))
                 /\ upstream_branches' = {}
                 /\ idx' = 1 /\ sidx' = 1
                 /\ pc' = IF Len(get_upstream_prs(ul)) = 0 THEN "stale" ELSE "items"
                 /\ calls' = <<lu, lf>>
                 /\ run_ok' = TRUE
                 /\ UNCHANGED exit_code
    /\ UNCHANGED <<world, counters, success, result, item_env, stale_env,
                   stale_counts, run_results, run_creates, changes, last_clean>>

\* A variant that records the branch name only for an item that did not fail.
record_branch_on_success(branches, branch_name, outcome) ==
    IF outcome = "failed" THEN branches ELSE branches \cup {branch_name}

\* upstream_branches.add(branch_name), before create_or_update_pr is called
\* and whatever it returns.
record_branch(branches, branch_name, outcome) == branches \cup {branch_name}

\* A variant that tolerates one failed item.
overall_success_lenient(failed_count) == failed_count <= 1

\* return failed == 0
overall_success(failed_count) == failed_count = 0

\* One iteration of the loop over upstream_prs_sorted (lines 260-276).
ProcessPr ==
    /\ pc = "items"
    /\ LET pr == upstream_prs_sorted[idx]
           branch_name == get_branch_name(pr, upstream_prs)
       IN  \E o \in ItemOutcomes :
           LET r == create_or_update_pr(pr, branch_name, fork_prs, o)
           IN  /\ ItemChoice(o, r.calls)
               /\ CreateAccepted(fork, r.calls)
               /\ upstream_branches' =
                    record_branch(upstream_branches, branch_name, r.result)
               /\ result' = r.result
               /\ created' = created + (IF r.result = "created" THEN 1 ELSE 0)
               /\ updated' = updated + (IF r.result = "updated" THEN 1 ELSE 0)
               /\ unchanged' = unchanged + (IF r.result = "unchanged" THEN 1 ELSE 0)
               /\ failed' = failed +
                    (IF r.result \notin {"created", "updated", "unchanged"}
                     THEN 1 ELSE 0)
               /\ calls' = r.calls \o <<Sleep>>
               /\ step' = "item"
               /\ item_env' = o
               /\ fork' = ForkAfterItem(fork, r.calls, pr, fork_next)
               /\ fork_next' = IF r.result = "created" THEN fork_next + 1
                               ELSE fork_next
               /\ run_results' = Append(run_results, r.result)
               /\ run_creates' = run_creates \o
                    (IF Issued(r.calls, "pr_create") THEN <<branch_name>> ELSE <<>>)
               /\ run_ok' = (run_ok /\ AllSucceeded(r.calls))
    /\ idx' = idx + 1
    /\ pc' = IF idx = Len(upstream_prs_sorted) THEN "stale" ELSE "items"
    /\ UNCHANGED <<upstream, env_faults, upstream_prs, upstream_prs_sorted,
                   fork_prs, sidx, closed, merged, success, exit_code,
                   stale_env, stale_counts, history>>

\* One iteration of the loop over fork_prs.items() (lines 201-231).
StaleStep ==
    /\ pc = "stale"
    /\ sidx <= Len(fork_prs)
    /\ LET pr == fork_prs[sidx]
       IN  \E o \in StaleOutcomes :
           LET r == stale_item(pr.headRefName, pr, upstream_branches, o)
           IN  /\ StaleChoice(o, r.calls)
               /\ ViewAllowed(r.calls, o.view, upstream)
               /\ merged' = merged + r.merged
               /\ closed' = closed + r.closed
               /\ calls' = r.calls
               /\ step' = "stale"
               /\ stale_env' = o
               /\ item_env' = NoItemEnv
               /\ stale_counts' = [merged |-> r.merged, closed |-> r.closed]
               /\ fork' = ForkAfterStale(fork, r.calls, pr)
               /\ run_ok' = (run_ok /\ AllSucceeded(r.calls))
    /\ sidx' = sidx + 1
    /\ UNCHANGED <<upstream, fork_next, env_faults, pc, upstream_prs,
                   upstream_prs_sorted, fork_prs, upstream_branches, idx,
                   created, updated, unchanged, failed, result, success,
                   exit_code, run_results, run_creates, history>>

\* The summary and return of sync_prs, and main's sys.exit (lines 281-303).
Finish ==
    /\ pc = "stale"
    /\ sidx > Len(fork_prs)
    /\ pc' = "done"
    /\ success' = Some(overall_success(failed))
    /\ exit_code' = Some(IF overall_success(failed) THEN 0 ELSE 1)
    /\ last_clean' = run_ok
    /\ step' = "finish" /\ calls' = <<>>
    /\ item_env' = NoItemEnv /\ stale_env' = NoStaleEnv /\ stale_counts' = NoCounts
    /\ UNCHANGED <<world, locals, counters, result, runlog, runs, changes,
                   after_clean>>

Next == StartRun \/ ProcessPr \/ StaleStep \/ Finish

Spec == Init /\ [][Next]_vars

\* ------------------------------------------------------- the scheduled job

\* The scheduler starts the job again after a run has ended.
NextRun ==
    /\ pc \in {"done", "aborted"}
    /\ runs < MaxRuns
    /\ pc' = "idle"
    /\ upstream_prs' = <<>> /\ upstream_prs_sorted' = <<>> /\ fork_prs' = <<>>
    /\ upstream_branches' = {} /\ idx' = 1 /\ sidx' = 1
    /\ created' = 0 /\ updated' = 0 /\ unchanged' = 0 /\ failed' = 0
    /\ closed' = 0 /\ merged' = 0
    /\ step' = "" /\ result' = "" /\ success' = None /\ exit_code' = None
    /\ calls' = <<>>
    /\ item_env' = NoItemEnv /\ stale_env' = NoStaleEnv /\ stale_counts' = NoCounts
    /\ run_results' = <<>> /\ run_creates' = <<>> /\ run_ok' = TRUE
    /\ after_clean' = FALSE
    /\ UNCHANGED <<world, runs, changes, last_clean>>

\* Between runs a pull request is opened (or reopened) upstream.
UpstreamOpen ==
    /\ pc = "idle"
    /\ changes < MaxChanges
    /\ \E n \in 1..MaxPr, h \in Heads :
        /\ ~\E u \in upstream : u.number = n
        /\ upstream' = upstream \cup {UpstreamPr(n, h, 1)}
    /\ changes' = changes + 1
    /\ last_clean' = FALSE
    /\ UNCHANGED <<fork, fork_next, env_faults, pc, locals, counters, success,
                   exit_code, steplog, runlog, runs, after_clean>>

\* Between runs a commit is pushed to an open upstream pull request.
UpstreamPush ==
    /\ pc = "idle"
    /\ changes < MaxChanges
    /\ \E u \in upstream :
        upstream' = (upstream \ {u})
                        \cup {[u EXCEPT !.headRefOid = u.headRefOid + 1]}
    /\ changes' = changes + 1
    /\ last_clean' = FALSE
    /\ UNCHANGED <<fork, fork_next, env_faults, pc, locals, counters, success,
                   exit_code, steplog, runlog, runs, after_clean>>

\* Between runs an upstream pull request is merged or closed.
UpstreamLeave ==
    /\ pc = "idle"
    /\ changes < MaxChanges
    /\ \E u \in upstream : upstream' = upstream \ {u}
    /\ changes' = changes + 1
    /\ last_clean' = FALSE
    /\ UNCHANGED <<fork, fork_next, env_faults, pc, locals, counters, success,
                   exit_code, steplog, runlog, runs, after_clean>>

\* Repeated runs of an empty fork, every adapter call exiting 0.
InitRuns ==
    /\ upstream \in UpstreamSets
    /\ fork = {}
    /\ fork_next = Len(ForkHeads) + 1
    /\ env_faults = FALSE
    /\ Idle
    /\ runs = 0 /\ changes = 0 /\ last_clean = FALSE

NextRuns ==
    \/ StartRun \/ ProcessPr \/ StaleStep \/ Finish
    \/ NextRun \/ UpstreamOpen \/ UpstreamPush \/ UpstreamLeave

SpecRuns == InitRuns /\ [][NextRuns]_vars

\* ----------------------------------------------- writing and reading a body

\* Author handles and original bodies of upstream PRs: bodies with no
\* reference, with a reference to another PR inside or at the very start,
\* and with digits of their own.
RoundTripAuthors == {Logins[1], <<"u", "4", "2">>}
RoundTripBodies ==
    {<<>>, Bodies[2], BackRefLiteral \o <<"7">>, <<"#", "5", " ", "1", "2">>}

\* One open upstream PR with any number, author and body, an empty fork and
\* adapter calls that exit 0: the first run writes the mirror body, and
\* once the upstream PR has left, the next run reads it back.
InitBody ==
    /\ \E n \in 1..MaxId, a \in RoundTripAuthors, b \in RoundTripBodies :
          upstream = {[UpstreamPr(n, <<"h">>, 1) EXCEPT !.author = a, !.body = b]}
    /\ fork = {}
    /\ fork_next = Len(ForkHeads) + 1
    /\ env_faults = FALSE
    /\ Idle
    /\ runs = 0 /\ changes = 0 /\ last_clean = FALSE

NextBody ==
    \/ StartRun \/ ProcessPr \/ StaleStep \/ Finish
    \/ NextRun \/ UpstreamLeave

SpecBody == InitBody /\ [][NextBody]_vars

\* ------------------------------------------------------------------ claims

\* The upstream item the last ProcessPr step reconciled, and its branch name.
LastItem == upstream_prs_sorted[idx - 1]
LastBranch == get_branch_name(LastItem, upstream_prs)
\* The fork entry the last StaleStep step visited.
LastFork == fork_prs[sidx - 1]

\* The branch names derived from the open upstream set of this run.
DerivedBranches ==
    {get_branch_name(upstream_prs[i], upstream_prs) : i \in DOMAIN upstream_prs}

CallsOf(op) == SelectSeq(calls, LAMBDA c : c.op = op)

\* The last step visited an orphaned fork PR.
AfterOrphan == step = "stale" /\ LastFork.headRefName \notin DerivedBranches

\* ... whose body yields a back-reference id and whose lookup said merged.
AfterMergedOrphan ==
    /\ AfterOrphan
    /\ Truthy(extract_upstream_pr_num(LastFork))
    /\ stale_env.view = "merged"

\* C2: when the upstream PR of an orphaned fork PR is reported merged and
\* the merge call on the fork PR fails, the run issues a close call for
\* that fork PR and counts it as closed, not as merged.
C2_FailedMergeIsClosed ==
    (AfterMergedOrphan /\ ~stale_env.merge) =>
        /\ \E i \in DOMAIN calls :
              calls[i].op = "pr_close" /\ calls[i].num = LastFork.number
        /\ stale_counts = [merged |-> 0, closed |-> 1]

\* C3: an orphaned fork PR with a recoverable back-reference whose upstream
\* state reports merged, and whose merge call succeeds, adds exactly one to
\* merged and nothing to closed; the one merge call names it and asks for
\* the branch to be deleted, and no close call is issued.
C3_MergedOrphanIsMerged ==
    (AfterMergedOrphan /\ stale_env.merge) =>
        /\ stale_counts = [merged |-> 1, closed |-> 0]
        /\ Len(CallsOf("pr_merge")) = 1
        /\ CallsOf("pr_merge")[1].num = LastFork.number
        /\ CallsOf("pr_merge")[1].delete_branch
        /\ ~Issued(calls, "pr_close")

C3_Witness ==
    AfterMergedOrphan /\ stale_env.merge /\ merged >= 1 /\ LastFork \notin fork

\* C4: a merge call is issued for an orphaned fork PR only if its body
\* yields a back-reference id, the lookup for that id was issued and
\* answered, and the answer says merged; every other orphan is closed by
\* a close call, counted as closed and never merged.
C4_MergeOnlyWhenReportedMerged ==
    AfterOrphan =>
        /\ Issued(calls, "pr_merge") =>
              /\ extract_upstream_pr_num(LastFork) # None
              /\ Len(CallsOf("pr_view")) = 1
              /\ CallsOf("pr_view")[1].num = extract_upstream_pr_num(LastFork)[1]
              /\ CallsOf("pr_view")[1].ok
              /\ stale_env.view = "merged"
        /\ ~(extract_upstream_pr_num(LastFork) # None /\ stale_env.view = "merged") =>
              /\ ~Issued(calls, "pr_merge")
              /\ \E i \in DOMAIN calls :
                    calls[i].op = "pr_close" /\ calls[i].num = LastFork.number
              /\ stale_counts = [merged |-> 0, closed |-> 1]

C4_Witness ==
    /\ AfterOrphan
    /\ extract_upstream_pr_num(LastFork) # None
    /\ stale_env.view = "not_merged"
    /\ stale_counts.closed = 1

\* The last step reconciled an upstream item with no entry in the fork
\* snapshot, and every call it depends on exits 0.
AfterAbsentAllOk ==
    /\ step = "item"
    /\ DictGet(fork_prs, LastBranch) = None
    /\ item_env.exists \/ (item_env.base_fetch /\ item_env.base_push)
    /\ item_env.fetch /\ item_env.push /\ item_env.create

\* C5: for an upstream PR whose resolved branch name has no entry in the
\* fork snapshot, with the base branch ensured and fetch, push and create
\* succeeding, create_or_update_pr returns 'created' after exactly one
\* create-PR call whose head is the resolved branch name, whose title and
\* base are the upstream title and base branch, and whose body contains
\* 'facebook/react#<id>' for the upstream PR's id.
C5_AbsentIsCreated ==
    AfterAbsentAllOk =>
        /\ result = "created"
        /\ Len(CallsOf("pr_create")) = 1
        /\ CallsOf("pr_create")[1].ref = LastBranch
        /\ CallsOf("pr_create")[1].title = LastItem.title
        /\ CallsOf("pr_create")[1].base = LastItem.baseRefName
        /\ Contains(CallsOf("pr_create")[1].body,
                    BackRefLiteral \o Str(LastItem.number))

C5_Witness ==
    /\ AfterAbsentAllOk
    /\ result = "created"
    /\ \E p \in fork : p.headRefName = LastBranch /\ p.number = fork_next - 1

\* The last step reconciled an upstream item whose branch name has an entry
\* in the fork snapshot with the same head commit.
AfterSynced ==
    /\ step = "item"
    /\ DictGet(fork_prs, LastBranch) # None
    /\ DictGet(fork_prs, LastBranch)[1].headRefOid = LastItem.headRefOid

\* C6: when the fork snapshot has an entry for the resolved branch name with
\* the upstream head commit, create_or_update_pr returns 'unchanged' and
\* issues no call at all (the step's only call is the loop's sleep),
\* whatever the other fields of the two pull requests are.
C6_SyncedIsUnchanged ==
    AfterSynced =>
        /\ result = "unchanged"
        /\ calls = <<Sleep>>

C6_Witness ==
    /\ AfterSynced
    /\ result = "unchanged"
    /\ DictGet(fork_prs, LastBranch)[1].title # LastItem.title
    /\ DictGet(fork_prs, LastBranch)[1].body #
           MirrorBody(LastItem.number, LastItem.author, LastItem.body)

\* The positions of the listing whose PR shares the head branch of entry i.
Group(i) ==
    {j \in DOMAIN upstream_prs :
        upstream_prs[j].headRefName = upstream_prs[i].headRefName}

NameOf(i) == get_branch_name(upstream_prs[i], upstream_prs)

\* C7: a PR whose head branch name occurs once in the listing resolves to
\* that name; the PRs of a group of two or more sharing a head branch name
\* resolve to '<headBranch>-<own id>', pairwise distinct within the group;
\* and these are the names the run has recorded for the items processed.
C7_BranchNames ==
    /\ \A i \in DOMAIN upstream_prs :
        /\ Cardinality(Group(i)) = 1 => NameOf(i) = upstream_prs[i].headRefName
        /\ Cardinality(Group(i)) >= 2 =>
              /\ NameOf(i) = upstream_prs[i].headRefName \o <<"-">>
                                \o Str(upstream_prs[i].number)
              /\ \A j \in Group(i) : j # i => NameOf(j) # NameOf(i)
    /\ \A k \in 1..(idx - 1) :
        LET pr == upstream_prs_sorted[k]
            shared == \E u \in upstream : u.number # pr.number
                                          /\ u.headRefName = pr.headRefName
        IN  (IF shared THEN pr.headRefName \o <<"-">> \o Str(pr.number)
             ELSE pr.headRefName) \in upstream_branches

C7_Witness ==
    /\ step = "item"
    /\ idx = 3
    /\ \E i \in DOMAIN upstream_prs : Cardinality(Group(i)) >= 2
    /\ \E i \in DOMAIN upstream_prs : Cardinality(Group(i)) = 1
    /\ Cardinality(upstream_branches) = 2

\* The orphans among the fork entries the stale pass has visited so far.
OrphansVisited ==
    {i \in 1..(sidx - 1) : fork_prs[i].headRefName \notin DerivedBranches}

\* C8: every orphaned fork PR of the snapshot is counted exactly once, as
\* merged or as closed: while the stale pass runs, and when it has ended,
\* merged + closed is the number of orphans visited, whichever lookups,
\* merges and closes exited non-zero.
C8_OrphansAllCounted ==
    pc \in {"stale", "done"} =>
        /\ merged + closed = Cardinality(OrphansVisited)
        /\ step = "stale" =>
              stale_counts.merged + stale_counts.closed =
                  (IF LastFork.headRefName \in DerivedBranches THEN 0 ELSE 1)
        /\ pc = "done" => sidx = Len(fork_prs) + 1

C8_Witness ==
    /\ pc = "done"
    /\ Cardinality(OrphansVisited) = 2
    /\ merged = 1 /\ closed = 1
    /\ ~run_ok
    /\ \A i \in DOMAIN run_results : run_results[i] # "failed"

\* No upstream item of this run returned 'failed'.
NoItemFailed == \A i \in DOMAIN run_results : run_results[i] # "failed"

\* C9: the value sync_prs returns is true, and the exit code 0, exactly
\* when no upstream item's create/update returned 'failed'; calls that
\* fail in the stale pass do not change it.  (A run whose listing fails
\* raises before any item and returns nothing.)
C9_SuccessIffNoItemFailed ==
    /\ pc = "done" =>
          /\ Len(run_results) = Len(upstream_prs)
          /\ success = Some(NoItemFailed)
          /\ exit_code = Some(IF NoItemFailed THEN 0 ELSE 1)
    /\ pc \notin {"done"} => success = None
    /\ pc \notin {"done", "aborted"} => exit_code = None

C9_Witness ==
    /\ pc = "done"
    /\ success = Some(TRUE) /\ exit_code = Some(0)
    /\ ~run_ok
    /\ closed + merged >= 1

\* C10: the fork has at most one open PR per head branch name, and a run
\* never issues two create-PR calls with the same head branch name.
C10_ForkBranchesUnique ==
    /\ \A a, b \in fork : a.headRefName = b.headRefName => a = b
    /\ \A i, j \in DOMAIN run_creates : i # j => run_creates[i] # run_creates[j]

\* C1: a run that starts right after a run in which every adapter call
\* succeeded, with upstream unchanged in between, creates, updates, merges
\* and closes nothing.
C1_SecondRunDoesNothing ==
    after_clean => (created = 0 /\ updated = 0 /\ merged = 0 /\ closed = 0)

\* How many items of this run returned r.
CountOf(r) == Cardinality({i \in DOMAIN run_results : run_results[i] = r})

\* The adapter calls of the latest step without the loop's final sleep.
ItemCalls == SubSeq(calls, 1, Len(calls) - 1)

\* C11: an upstream item one of whose calls exits non-zero returns 'failed'
\* and nothing else does; the loop goes on to the next item and then to the
\* stale pass, so each item of the listing gets exactly one outcome, the
\* four counters are the numbers of those outcomes, and when the stale pass
\* starts they add up to the number of open upstream PRs.
C11_FailureIsolation ==
    /\ step = "item" =>
          /\ (result = "failed") <=> ~AllSucceeded(ItemCalls)
          /\ result \in {"created", "updated", "unchanged", "failed"}
          /\ run_results[idx - 1] = result
          /\ pc = (IF idx - 1 = Len(upstream_prs_sorted) THEN "stale" ELSE "items")
    /\ pc \in {"items", "stale", "done"} =>
          /\ Len(run_results) = idx - 1
          /\ created = CountOf("created") /\ updated = CountOf("updated")
          /\ unchanged = CountOf("unchanged") /\ failed = CountOf("failed")
          /\ created + updated + unchanged + failed = idx - 1
    /\ pc \in {"stale", "done"} =>
          /\ created + updated + unchanged + failed = Len(upstream_prs)
          /\ Len(upstream_prs) = Cardinality(upstream)
    /\ pc = "done" => sidx = Len(fork_prs) + 1

C11_Witness ==
    /\ pc = "done"
    /\ Len(run_results) = 2
    /\ run_results[1] = "failed" /\ run_results[2] = "created"
    /\ failed = 1 /\ created = 1
    /\ closed = 1

\* C12: over the whole listing of open upstream PRs (distinct ids),
\* get_branch_name gives distinct PRs distinct branch names.
C12_BranchNamesInjective ==
    \A i, j \in DOMAIN upstream_prs : i # j => NameOf(i) # NameOf(j)

\* The latest step issued a merge or a close call.
StaleMutation == Issued(calls, "pr_merge") \/ Issued(calls, "pr_close")

\* The numbers of the open upstream PRs in this run's snapshot.
OpenNumbers == {upstream_prs[i].number : i \in DOMAIN upstream_prs}

\* C13: no run issues a merge or close call for a fork PR whose body refers
\* back to an upstream PR that is in the run's open upstream snapshot.
C13_ClosedOnlyWhenUpstreamLeft ==
    (step = "stale" /\ StaleMutation /\ extract_upstream_pr_num(LastFork) # None)
        => extract_upstream_pr_num(LastFork)[1] \notin OpenNumbers

\* C14: whenever create_or_update_pr finds a fork PR under the resolved
\* branch name and returns 'unchanged' or 'updated', the back-reference id
\* in that fork PR's body is the id of the upstream PR.
C14_MatchedMirrorRefersBack ==
    (step = "item" /\ DictGet(fork_prs, LastBranch) # None
                   /\ result \in {"unchanged", "updated"})
        => extract_upstream_pr_num(DictGet(fork_prs, LastBranch)[1])
               = Some(LastItem.number)

\* The fork PRs this run has created: the fork numbers them consecutively.
CreatedThisRun == {p \in fork : p.number >= fork_next - created}

\* C15: a merge or close call names the fork entry being visited, whose
\* head branch is not the resolved branch name of any PR of the upstream
\* listing, whether or not that item's update failed; it never names a PR
\* created in this run, and every PR created in this run is still open
\* during and after the stale pass.
C15_LiveBranchesAreKept ==
    /\ (step = "stale" /\ StaleMutation) =>
          /\ LastFork.headRefName \notin DerivedBranches
          /\ \A i \in DOMAIN calls :
                calls[i].op \in {"pr_merge", "pr_close"} =>
                    /\ calls[i].num = LastFork.number
                    /\ calls[i].num < fork_next - created
    /\ ~StaleMutation => (step # "stale" \/ stale_counts = NoCounts)
    /\ pc \in {"stale", "done"} => Cardinality(CreatedThisRun) = created

C15_Witness ==
    /\ step = "stale"
    /\ failed = 1 /\ created = 1
    /\ LastFork.headRefName \in DerivedBranches
    /\ LastFork \in fork
    /\ \E i \in DOMAIN upstream_prs_sorted :
          /\ run_results[i] = "failed"
          /\ get_branch_name(upstream_prs_sorted[i], upstream_prs)
                 = LastFork.headRefName
    /\ calls = <<>>

\* The last step reconciled an upstream item whose branch name has an entry
\* in the fork snapshot with another head commit.
AfterStaleOpen ==
    /\ step = "item"
    /\ DictGet(fork_prs, LastBranch) # None
    /\ DictGet(fork_prs, LastBranch)[1].headRefOid # LastItem.headRefOid

\* C16: for an entry of the fork snapshot with another head commit the
\* calls are a forced fetch of the upstream head ref into the branch and,
\* only if it exited 0, a forced push of the branch, and nothing else; the
\* result is 'updated' if both exited 0 and 'failed' otherwise; the fork
\* PR keeps its title, body and base.
C16_UpdateIsFetchThenPush ==
    AfterStaleOpen =>
        LET existing == DictGet(fork_prs, LastBranch)[1]
            f == Call("fetch_head", LastItem.number, LastBranch, TRUE,
                      item_env.fetch)
            p == Call("push_head", LastItem.number, LastBranch, TRUE,
                      item_env.push)
        IN  /\ ItemCalls = (IF item_env.fetch THEN <<f, p>> ELSE <<f>>)
            /\ result = (IF item_env.fetch /\ item_env.push THEN "updated"
                         ELSE "failed")
            /\ \E q \in fork :
                  /\ q.number = existing.number
                  /\ q.title = existing.title /\ q.body = existing.body
                  /\ q.baseRefName = existing.baseRefName
                  /\ q.headRefName = existing.headRefName

C16_Witness ==
    /\ AfterStaleOpen
    /\ result = "updated"
    /\ DictGet(fork_prs, LastBranch)[1].title # LastItem.title
    /\ DictGet(fork_prs, LastBranch)[1].baseRefName # LastItem.baseRefName
    /\ \E q \in fork : /\ q.number = DictGet(fork_prs, LastBranch)[1].number
                        /\ q.headRefOid = LastItem.headRefOid

\* The last step reconciled an upstream item with no entry in the fork
\* snapshot.
AfterAbsent == step = "item" /\ DictGet(fork_prs, LastBranch) = None

\* The calls of a creation in which nothing fails, in order.
CreationOrder ==
    (IF item_env.exists THEN <<"ls_remote">>
     ELSE <<"ls_remote", "fetch_base", "push_base">>)
        \o <<"fetch_head", "push_head", "pr_create">>

\* C17: for an item with no fork counterpart the calls are an initial part
\* of: base branch check (and, if it is missing, its fetch and push),
\* fetch of the head ref, push of the branch, create PR; every call but
\* the last exited 0, and the sequence stops early only at a call that
\* failed.  So nothing follows a base branch that could not be ensured,
\* and no create-PR call follows a failed fetch or push.  (The base branch
\* check is run with check=False: only what it printed is looked at.)
C17_CreationOrder ==
    AfterAbsent =>
        LET n == Len(ItemCalls)
        IN  /\ n >= 1 /\ n <= Len(CreationOrder)
            /\ \A i \in 1..n : ItemCalls[i].op = CreationOrder[i]
            /\ \A i \in 2..(n - 1) : ItemCalls[i].ok
            /\ n < Len(CreationOrder) => (n >= 2 /\ ~ItemCalls[n].ok)
            /\ \A i \in 1..n :
                  IF ItemCalls[i].op \in {"ls_remote", "fetch_base", "push_base"}
                  THEN ItemCalls[i].ref = LastItem.baseRefName
                  ELSE ItemCalls[i].ref = LastBranch
            /\ (~item_env.exists /\ ~(item_env.base_fetch /\ item_env.base_push))
                  => /\ ~Issued(calls, "fetch_head")
                     /\ ~Issued(calls, "push_head")
                     /\ ~Issued(calls, "pr_create")
                     /\ result = "failed"
            /\ (~item_env.fetch \/ ~item_env.push) => ~Issued(calls, "pr_create")

C17_Witness ==
    /\ AfterAbsent
    /\ ~item_env.exists /\ item_env.base_fetch /\ ~item_env.base_push
    /\ Len(ItemCalls) = 3
    /\ result = "failed"
    /\ failed = 1

\* The fork entries the stale pass has still to visit that are orphans.
OrphansLeft ==
    {k \in sidx..Len(fork_prs) : fork_prs[k].headRefName \notin DerivedBranches}

\* C18: an iteration of the stale pass that issued a merge or close call
\* ends with the delay, unless no orphan is left to visit: so a delay lies
\* between the mutating call on one orphan and the first call for the next.
C18_DelayAfterEveryMutation ==
    (step = "stale" /\ StaleMutation /\ OrphansLeft # {})
        => calls[Len(calls)] = Sleep

ListOps == {"pr_list_upstream", "pr_list_fork"}
ItemOps == {"ls_remote", "fetch_base", "push_base", "fetch_head", "push_head",
            "pr_create"}
StaleOps == {"pr_view", "pr_merge", "pr_close"}

OpsIn(cs) == {cs[i].op : i \in DOMAIN cs}

\* C19: the two listings are read in the first step of a run, before any
\* other call, and never again; the items are reconciled in strictly
\* ascending order of their numbers, whatever the order of the listing;
\* and lookups, merges and closes are issued only when every item of the
\* listing has been reconciled.
C19_RunOrder ==
    /\ step = "start" =>
          /\ OpsIn(calls) \subseteq ListOps
          /\ run_results = <<>>
          /\ created + updated + unchanged + failed + merged + closed = 0
          /\ pc # "aborted" =>
                /\ {upstream_prs[i] : i \in DOMAIN upstream_prs} = upstream
                /\ {fork_prs[i] : i \in DOMAIN fork_prs} = fork
    /\ step # "start" => OpsIn(calls) \cap ListOps = {}
    /\ pc \in {"items", "stale", "done"} =>
          /\ Len(upstream_prs_sorted) = Len(upstream_prs)
          /\ {upstream_prs_sorted[i] : i \in DOMAIN upstream_prs_sorted}
                = {upstream_prs[i] : i \in DOMAIN upstream_prs}
          /\ \A i, j \in DOMAIN upstream_prs_sorted :
                i < j => upstream_prs_sorted[i].number < upstream_prs_sorted[j].number
    /\ step = "item" =>
          /\ OpsIn(ItemCalls) \subseteq ItemOps
          /\ \A i \in DOMAIN calls :
                calls[i].op \in {"fetch_head", "push_head"} =>
                    calls[i].num = upstream_prs_sorted[Len(run_results)].number
          /\ merged = 0 /\ closed = 0 /\ sidx = 1
    /\ step = "stale" =>
          /\ OpsIn(calls) \subseteq StaleOps \cup {"sleep"}
          /\ Len(run_results) = Len(upstream_prs)
          /\ idx = Len(upstream_prs_sorted) + 1

C19_Witness ==
    /\ step = "stale"
    /\ Issued(calls, "pr_close")
    /\ Len(upstream_prs) = 2
    /\ upstream_prs[1].number > upstream_prs[2].number
    /\ created = 2

\* The first line of a mirror body up to the link, for upstream PR n.
MirrorHead(n) ==
    TplMirrorOf \o UPSTREAM_REPO \o <<"#">> \o Str(n) \o TplLinkOpen

\* C20: extract_upstream_pr_num applied to the body the create template
\* builds for an upstream PR returns that PR's number, whatever its author
\* and original body: for every item of the listing, for the fork PR a run
\* has just created, and for the lookup a later run issues from that body.
C20_BackReferenceRoundTrip ==
    /\ \A i \in DOMAIN upstream_prs :
          extract_upstream_pr_num(
              [body |-> MirrorBody(upstream_prs[i].number, upstream_prs[i].author,
                                   upstream_prs[i].body)])
            = Some(upstream_prs[i].number)
    /\ (step = "item" /\ result = "created") =>
          \A p \in fork : p.number = fork_next - 1 =>
              extract_upstream_pr_num(p) = Some(LastItem.number)
    /\ (step = "stale" /\ Issued(calls, "pr_view")) =>
          OccursAt(LastFork.body, MirrorHead(CallsOf("pr_view")[1].num), 1)

C20_Witness ==
    /\ step = "stale"
    /\ Issued(calls, "pr_view")
    /\ CallsOf("pr_view")[1].num >= 100
    /\ Contains(LastFork.body, BackRefLiteral \o <<"7">>)
    /\ runs = 2

====
